---- MODULE Spec2Model ----
(***************************************************************************)
(* Execution control loop of the agentic task executor: the task store,    *)
(* the execution-connection registry, the execute_tasks orchestrator and   *)
(* the endpoints that run beside it (heartbeat, pause, claim), for one     *)
(* session.  A step of the model is one call on a shared table (sessions,  *)
(* tasks, execution_connections) with the local code that follows it up to *)
(* the next such call; a service method that reads a row and then writes   *)
(* it (start_task, complete_task, fail_task) is two steps, as it is two    *)
(* round trips to the store.                                               *)
(*                                                                         *)
(* Two names the orchestrator uses are not declared by the files under     *)
(* src/: SessionStatus.PAUSED (models/base.py lists planning, executing,   *)
(* completed) and the sixth argument of execute_single_task.  Both are     *)
(* taken as execute.py uses them; everything else, the members of          *)
(* ExecutionLogEventType included, is taken from the declarations.         *)
(*                                                                         *)
(* Spec is one call of execute_tasks beside the other endpoints, the clock *)
(* and the faults; SpecResume is two calls of execute_tasks, beside or     *)
(* after one another, with claim_execution; SpecPause is the same two      *)
(* calls with pause_execution; SpecSeq is calls of execute_tasks that each *)
(* start after the one before has ended; SpecTask and SpecConn are the     *)
(* task service and the connection service called on their own;            *)
(* SpecGraph is one task with its workflow followed node by node,          *)
(* SpecChat is the planning chat that stores its tasks beside the calls of *)
(* the task service, and                                                   *)
(* SpecRepair is the thread of one task alone, with its repair.  No        *)
(* routine repairs a thread in the files under src/: repair is the         *)
(* Interrupted-State Repair of the design, section 4.2.                    *)
(***************************************************************************)
EXTENDS Integers, Sequences, FiniteSets, TLC

----------------------------------------------------------------------------
(* Bounds of the model *)

NumTasks == 2          \* tasks of the session, order 1..NumTasks
MaxRuns == 2           \* calls of execute_tasks
MaxClaims == 1         \* calls of claim_execution
MaxToolCalls == 1      \* tool invocations of one workflow run
MaxFaults == 1         \* store calls that raise
MaxPauses == 1         \* calls of pause_execution
TickStep == 16        \* seconds the clock advances in one step
MaxTime == 16          \* last instant of the clock
MaxRegistrations == 3  \* connections registered with the service alone
MaxConnTime == 17      \* the last second of the clock of the service alone
MaxCallsPerTurn == 2   \* tool invocations of one agent turn, the thread alone
MaxMessages == 6       \* turns of a thread, the thread alone
MaxRepairs == 2        \* repairs in a row, the thread alone

(* Program constants *)

TimeoutSeconds == 15   \* timeout_seconds passed by the orchestrator

Tasks == 1..NumTasks
Runs == 1..MaxRuns

----------------------------------------------------------------------------
(* Enumerations *)

SessionStatus == {"planning", "executing", "paused", "completed"}

TaskStatus == {"pending", "in_progress", "done", "failed"}

ExecutionLogEventType ==
    {"task_selected", "tool_call", "tool_result", "content", "task_completed",
     "artifact_analysis_start", "artifact_analysis_complete",
     "artifact_created", "error", "done"}

_SKIP_PERSIST_EVENTS == {"content"}

NoTask == 0
NoConn == [connection_id |-> 0, last_heartbeat |-> 0, pause_requested |-> FALSE]

Event(type, taskId, reason, summary) ==
    [type |-> type, taskId |-> taskId, reason |-> reason, summary |-> summary]

NoEvent == Event("none", NoTask, "", <<>>)

----------------------------------------------------------------------------
(* ExecutionConnectionService: a row per session, or NoConn *)

\* an upsert that leaves last_heartbeat at the start of the clock
register_connection_stale(id, t) ==
    [connection_id |-> id, last_heartbeat |-> 0, pause_requested |-> FALSE]

register_connection(id, t) ==
    [connection_id |-> id, last_heartbeat |-> t, pause_requested |-> FALSE]

\* <<row after the call, returned bool>>
\* the update without its .eq("connection_id", ...)
update_heartbeat_any(row, id, t) ==
    IF row # NoConn
    THEN <<[row EXCEPT !.last_heartbeat = t], TRUE>>
    ELSE <<row, FALSE>>

update_heartbeat(row, id, t) ==
    IF row # NoConn /\ row.connection_id = id
    THEN <<[row EXCEPT !.last_heartbeat = t], TRUE>>
    ELSE <<row, FALSE>>

\* the timeout reached as soon as the heartbeat is timeout_seconds old
check_connection_status_early(row, id, t, timeout_seconds) ==
    IF row = NoConn THEN <<FALSE, "client_disconnected">>
    ELSE IF row.pause_requested THEN <<FALSE, "user_requested">>
    ELSE IF row.connection_id # id THEN <<FALSE, "client_disconnected">>
    ELSE IF t - row.last_heartbeat >= timeout_seconds
         THEN <<FALSE, "client_disconnected">>
    ELSE <<TRUE, "">>

\* a connection id that is not compared with the row's
check_connection_status_any_id(row, id, t, timeout_seconds) ==
    IF row = NoConn THEN <<FALSE, "client_disconnected">>
    ELSE IF row.pause_requested THEN <<FALSE, "user_requested">>
    ELSE IF t - row.last_heartbeat > timeout_seconds
         THEN <<FALSE, "client_disconnected">>
    ELSE <<TRUE, "">>

\* <<is_active, reason>>
check_connection_status(row, id, t, timeout_seconds) ==
    IF row = NoConn THEN <<FALSE, "client_disconnected">>
    ELSE IF row.pause_requested THEN <<FALSE, "user_requested">>
    ELSE IF row.connection_id # id THEN <<FALSE, "client_disconnected">>
    ELSE IF t - row.last_heartbeat > timeout_seconds
         THEN <<FALSE, "client_disconnected">>
    ELSE <<TRUE, "">>

\* a request that makes the record it does not find
request_pause_upsert(row) == <<[row EXCEPT !.pause_requested = TRUE], TRUE>>

\* <<row after the call, returned bool>>
request_pause(row) ==
    IF row # NoConn
    THEN <<[row EXCEPT !.pause_requested = TRUE], TRUE>>
    ELSE <<row, FALSE>>

\* a delete that matches no row
clear_connection_kept(row) == row

clear_connection(row) == NoConn

----------------------------------------------------------------------------
(* TaskService *)

RECURSIVE OrderedFrom(_, _)
\* the ids of S that are >= i, in ascending order (order("order"))
OrderedFrom(S, i) ==
    IF i > NumTasks THEN <<>>
    ELSE IF i \in S THEN <<i>> \o OrderedFrom(S, i + 1)
    ELSE OrderedFrom(S, i + 1)

\* a selection that leaves no task out
get_resumable_tasks_all(status) == OrderedFrom(Tasks, 1)

\* a selection in descending order
get_pending_tasks_desc(status) ==
    LET s == OrderedFrom({t \in Tasks : status[t] = "pending"}, 1)
    IN [i \in 1..Len(s) |-> s[Len(s) + 1 - i]]

get_pending_tasks(status) ==
    OrderedFrom({t \in Tasks : status[t] = "pending"}, 1)

get_resumable_tasks(status) ==
    OrderedFrom({t \in Tasks : status[t] \in {"in_progress", "pending"}}, 1)

\* a start that writes in_progress again over a task in progress
start_task_decision_rewrite(st) ==
    IF st \in {"pending", "in_progress"} THEN "update" ELSE "raise"

\* what start_task does with the status its get() returned
start_task_decision(st) ==
    IF st = "in_progress" THEN "return"
    ELSE IF st # "pending" THEN "raise"
    ELSE "update"

\* a check that lets a pending task through as well
complete_task_decision_lax(st) ==
    IF st \notin {"pending", "in_progress"} THEN "raise" ELSE "update"

complete_task_decision(st) ==
    IF st # "in_progress" THEN "raise" ELSE "update"

fail_task_decision(st) ==
    IF st # "in_progress" THEN "raise" ELSE "update"

start_task_write == "in_progress"
complete_task_write == "done"
fail_task_write == "failed"

\* what a call hands back: the task, or the ValueError whose message names
\* the status found and the statuses expected
Returned == [raised |-> FALSE, current |-> "", expected |-> {}]
InvalidTransition(st, exp) == [raised |-> TRUE, current |-> st, expected |-> exp]

\* One whole call, its get() and its update() with nothing in between:
\* <<status of the tasks, results of the tasks, what the call hands back>>
start_task(status, result, t) ==
    LET d == start_task_decision(status[t])
    IN IF d = "update"
       THEN <<[status EXCEPT ![t] = start_task_write], result, Returned>>
       ELSE IF d = "return" THEN <<status, result, Returned>>
       ELSE <<status, result,
              InvalidTransition(status[t], {"pending", "in_progress"})>>

complete_task(status, result, t, result_text) ==
    IF complete_task_decision(status[t]) = "update"
    THEN <<[status EXCEPT ![t] = complete_task_write],
           [result EXCEPT ![t] = result_text], Returned>>
    ELSE <<status, result, InvalidTransition(status[t], {"in_progress"})>>

fail_task(status, result, t, error) ==
    IF fail_task_decision(status[t]) = "update"
    THEN <<[status EXCEPT ![t] = fail_task_write],
           [result EXCEPT ![t] = error], Returned>>
    ELSE <<status, result, InvalidTransition(status[t], {"in_progress"})>>

----------------------------------------------------------------------------
(* ExecutionLogService.create_from_event: ExecutionLogEventType(event_type) *)
(* raises ValueError for a type that is no member of the enum               *)

create_from_event_accepts(type) == type \in ExecutionLogEventType

----------------------------------------------------------------------------
(* The conversation of a task: ExecutionState.messages as the checkpointer *)
(* keeps it under the task's thread_id.  Kept are the turns that matter to *)
(* resumption: the task prompt, the agent turns that carry tool            *)
(* invocations, and the tool-result turns.                                 *)

ToolCall(id, name) == [id |-> id, name |-> name]

HumanMessage ==
    [type |-> "human", tool_calls |-> <<>>, tool_call_id |-> 0,
     name |-> "", content |-> "prompt"]

AIMessage(tool_calls) ==
    [type |-> "ai", tool_calls |-> tool_calls, tool_call_id |-> 0,
     name |-> "", content |-> ""]

ToolMessage(id, name, content) ==
    [type |-> "tool", tool_calls |-> <<>>, tool_call_id |-> id,
     name |-> name, content |-> content]

\* the positions of the agent turns that carry tool invocations
CallTurns(msgs) ==
    {i \in 1..Len(msgs) : msgs[i].type = "ai" /\ msgs[i].tool_calls # <<>>}

\* the identifiers of the invocations of turn i
TurnIds(msgs, i) ==
    {msgs[i].tool_calls[j].id : j \in 1..Len(msgs[i].tool_calls)}

\* the identifiers that a tool-result turn after turn i carries
Answered(msgs, i) ==
    {msgs[k].tool_call_id :
        k \in {k \in (i + 1)..Len(msgs) : msgs[k].type = "tool"}}

\* the invocations of turn i that no later tool-result turn answers
Orphans(msgs, i) ==
    SelectSeq(msgs[i].tool_calls, LAMBDA c : c.id \notin Answered(msgs, i))

\* the identifiers of every invocation without a matching result
Unmatched(msgs) ==
    UNION {{c.id : c \in {Orphans(msgs, i)[j] :
                             j \in 1..Len(Orphans(msgs, i))}} :
           i \in CallTurns(msgs)}

LastCallTurn(msgs) ==
    CHOOSE i \in CallTurns(msgs) : \A k \in CallTurns(msgs) : k <= i

\* a fresh invocation identifier
NextCallId(msgs) ==
    Cardinality(UNION {TurnIds(msgs, i) : i \in CallTurns(msgs)}) + 1

\* the agent node returns a turn with an invocation; a further invocation
\* of the same turn is started while the tool node runs
record_tool_call(msgs, node, name) ==
    LET c == ToolCall(NextCallId(msgs), name)
    IN IF node = "tools" /\ CallTurns(msgs) # {}
       THEN [msgs EXCEPT ![LastCallTurn(msgs)].tool_calls = Append(@, c)]
       ELSE Append(msgs, AIMessage(<<c>>))

\* the tool node returns the result of the oldest invocation still open
record_tool_result(msgs) ==
    IF CallTurns(msgs) = {} THEN msgs
    ELSE LET o == Orphans(msgs, LastCallTurn(msgs))
         IN IF o = <<>> THEN msgs
            ELSE Append(msgs, ToolMessage(o[1].id, o[1].name, "output"))

\* what an event of the workflow tells of the turns the checkpoint has got
record_event(msgs, type, node) ==
    IF type = "tool_call" THEN record_tool_call(msgs, node, "tool")
    ELSE IF type = "tool_result" THEN record_tool_result(msgs)
    ELSE msgs

----------------------------------------------------------------------------
(* Interrupted-State Repair *)

\* the content of a synthesized tool-result turn
Sentinel == "interrupted - retry"

\* the turns synthesized for these invocations
Synthesized(calls) ==
    [j \in 1..Len(calls) |-> ToolMessage(calls[j].id, calls[j].name, Sentinel)]

\* a repair that answers every invocation of the turn
repair_all_calls(msgs) ==
    IF CallTurns(msgs) = {} THEN msgs
    ELSE msgs \o Synthesized(msgs[LastCallTurn(msgs)].tool_calls)

\* a repair whose turns do not carry the identifier
repair_untagged(msgs) ==
    IF CallTurns(msgs) = {} THEN msgs
    ELSE LET o == Orphans(msgs, LastCallTurn(msgs))
         IN msgs \o [j \in 1..Len(o) |-> ToolMessage(0, o[j].name, Sentinel)]

\* the most recent agent turn with invocations; the invocations of it
\* that no later tool-result turn answers; a turn appended for each
repair(msgs) ==
    IF CallTurns(msgs) = {} THEN msgs
    ELSE msgs \o Synthesized(Orphans(msgs, LastCallTurn(msgs)))
----------------------------------------------------------------------------
(* State *)

VARIABLES
    session_status,   \* sessions.status of the session
    tasks_status,     \* tasks.status, by task
    tasks_result,     \* tasks.result, by task ("" is null)
    conn,             \* the session's execution_connections row, or NoConn
    now,              \* the clock, in seconds
    next_uuid,        \* the next connection id uuid4() hands out
    run,              \* by call of execute_tasks: its position and locals
    wf,               \* by call: the state of the workflow it is driving
    stream,           \* by call: the events yielded on its SSE stream
    execution_log,    \* by call: the execution_logs rows it inserted
    claim,            \* the call of claim_execution: position and count
    pauses,           \* calls of pause_execution so far
    faults,           \* store calls that raised so far
    budget,           \* what the environment may do in this behaviour
    messages,         \* by task: the conversation kept under its thread_id
    artifacts,        \* by task: the number of rows of artifacts with its task_id
    svc               \* the last call made on a service taken alone

dbVars == <<session_status, tasks_status, tasks_result, conn>>
runVars == <<run, wf, stream, execution_log>>
envVars == <<now, next_uuid, claim, pauses, faults, budget>>
vars == <<dbVars, runVars, envVars, messages, artifacts, svc>>

InitRun ==
    [pc |-> "idle", is_resuming |-> FALSE, connection_id |-> 0,
     tasks_to_execute |-> <<>>, idx |-> 0,
     completed_count |-> 0, failed_count |-> 0,
     pending_tool_calls |-> 0, task_failed |-> FALSE, task_result |-> "",
     error_message |-> "", pause_reason |-> "", read_status |-> "",
     event |-> NoEvent, checked |-> FALSE, seen_inactive |-> FALSE,
     pre_paused |-> FALSE, paused_task |-> NoTask, fault |-> "",
     pause_accepted |-> FALSE, session_read |-> ""]

InitWf == [node |-> "none", open |-> 0, calls |-> 0, result |-> "",
           content |-> FALSE, reflected |-> FALSE]

NoCall == [op |-> "none", arg |-> 0, before |-> NoConn, ret |-> FALSE]

\* the kinds of event a workflow may or may not yield
WfKinds == {"content", "tool_call", "artifact_created", "empty_result",
            "reflection", "error"}

InitState ==
    /\ session_status = "planning"
    /\ tasks_status = [t \in Tasks |-> "pending"]
    /\ tasks_result = [t \in Tasks |-> ""]
    /\ conn = NoConn
    /\ now = 0
    /\ next_uuid = 1
    /\ run = [r \in Runs |-> InitRun]
    /\ wf = [r \in Runs |-> InitWf]
    /\ stream = [r \in Runs |-> <<>>]
    /\ execution_log = [r \in Runs |-> <<>>]
    /\ claim = [pc |-> "idle", n |-> 0, claimed |-> FALSE]
    /\ pauses = 0
    /\ faults = 0
    /\ messages = [t \in Tasks |-> <<>>]
    /\ artifacts = [t \in Tasks |-> 0]
    /\ svc = NoCall

\* the kinds the orchestrator treats differently from one another
LeanKinds == {"tool_call", "error", "reflection"}

\* one call of execute_tasks, beside every other endpoint and every fault
Init ==
    /\ InitState
    /\ budget = [runs |-> 1, claims |-> MaxClaims, pauses |-> MaxPauses,
                 faults |-> MaxFaults, wf |-> LeanKinds, streams |-> TRUE]

----------------------------------------------------------------------------
(* Helpers of the orchestrator *)

CurTask(r) == run[r].tasks_to_execute[run[r].idx]

\* _persist_and_yield_event raises for a type the log enum lacks, unless the
\* type is not persisted
persist_raises(type) ==
    type \notin _SKIP_PERSIST_EVENTS /\ ~create_from_event_accepts(type)

Persisted(evs) == SelectSeq(evs, LAMBDA e : e.type \notin _SKIP_PERSIST_EVENTS)

\* the events evs are persisted and yielded in turn by call r
Emit(r, evs) ==
    IF budget.streams
    THEN /\ stream' = [stream EXCEPT ![r] = @ \o evs]
         /\ execution_log' = [execution_log EXCEPT ![r] = @ \o Persisted(evs)]
    ELSE UNCHANGED <<stream, execution_log>>

\* an iteration that takes the same task again
Advance_stay(rec) ==
    [rec EXCEPT !.pc = "loop",
                !.task_failed = FALSE, !.task_result = "",
                !.error_message = "", !.read_status = "",
                !.event = NoEvent, !.checked = FALSE]

\* the next iteration of "for task in tasks_to_execute", or the code after it
Advance(rec) ==
    [rec EXCEPT !.idx = @ + 1,
                !.pc = IF rec.idx + 1 > Len(rec.tasks_to_execute)
                       THEN "finish_status" ELSE "loop",
                !.task_failed = FALSE, !.task_result = "",
                !.error_message = "", !.read_status = "",
                !.event = NoEvent, !.checked = FALSE]

\* except Exception of the outer try: an error event and the stream ends
OuterExcept(rec) == [rec EXCEPT !.pc = "done", !.fault = "exception"]

OuterErrorEvent == Event("error", NoTask, "", <<>>)

\* the handler goes on as rec without yielding its error event
EmitError_silent(r, ev, rec) ==
    /\ run' = [run EXCEPT ![r] = rec]
    /\ UNCHANGED <<stream, execution_log>>

\* An error event is persisted and yielded and call r goes on as rec; were
\* the insert of the row to raise, the exception would leave the generator
\* through the outer handler, whose own insert raises as well
EmitError(r, ev, rec) ==
    IF persist_raises("error")
    THEN /\ run' = [run EXCEPT ![r] =
              [run[r] EXCEPT !.pc = "aborted", !.fault = "exception"]]
         /\ UNCHANGED <<stream, execution_log>>
    ELSE /\ run' = [run EXCEPT ![r] = rec]
         /\ Emit(r, <<ev>>)

----------------------------------------------------------------------------
(* execute_tasks, up to the StreamingResponse *)

\* a check of the status that lets an executing session through
CanExecuteFrom_lax(status) == status # "completed"

\* execution is allowed from planning or paused only
CanExecuteFrom(status) == status \in {"planning", "paused"}

\* session_service.get and the check of the status
ExecGetSession(r) ==
    /\ run[r].pc = "idle"
    /\ r <= budget.runs
    /\ IF r = 1 THEN TRUE ELSE run[r - 1].pc # "idle"
    /\ run' = [run EXCEPT ![r] =
         IF ~CanExecuteFrom(session_status)
         THEN [@ EXCEPT !.pc = "rejected", !.session_read = session_status]
         ELSE [@ EXCEPT !.pc = "get_tasks", !.session_read = session_status,
                        !.is_resuming = (session_status = "paused")]]
    /\ UNCHANGED <<dbVars, wf, stream, execution_log, envVars, svc>>
    /\ UNCHANGED <<messages, artifacts>>

\* get_resumable_tasks or get_pending_tasks; 400 when there is none
ExecGetTasks(r) ==
    /\ run[r].pc = "get_tasks"
    /\ LET ts == IF run[r].is_resuming THEN get_resumable_tasks(tasks_status)
                 ELSE get_pending_tasks(tasks_status)
       IN run' = [run EXCEPT ![r] =
            IF ts = <<>> THEN [@ EXCEPT !.pc = "rejected"]
            ELSE [@ EXCEPT !.pc = "set_executing", !.tasks_to_execute = ts]]
    /\ UNCHANGED <<dbVars, wf, stream, execution_log, envVars, svc>>
    /\ UNCHANGED <<messages, artifacts>>

ExecSetExecuting(r) ==
    /\ run[r].pc = "set_executing"
    /\ session_status' = "executing"
    /\ run' = [run EXCEPT ![r].pc = "register"]
    /\ UNCHANGED <<tasks_status, tasks_result, conn, wf, stream,
                   execution_log, envVars, svc>>
    /\ UNCHANGED <<messages, artifacts>>

\* register_connection, then the generator starts and yields the connection
\* event, which is not logged
ExecRegister(r) ==
    /\ run[r].pc = "register"
    /\ conn' = register_connection(next_uuid, now)
    /\ next_uuid' = next_uuid + 1
    /\ run' = [run EXCEPT ![r].pc = "connected",
                          ![r].connection_id = next_uuid]
    /\ stream' = IF budget.streams
                 THEN [stream EXCEPT ![r] =
                          @ \o <<Event("connection", NoTask, "", <<>>)>>]
                 ELSE stream
    /\ UNCHANGED <<session_status, tasks_status, tasks_result, wf,
                   execution_log, now, claim, pauses, faults, budget, svc>>
    /\ UNCHANGED <<messages, artifacts>>

----------------------------------------------------------------------------
(* event_stream *)

\* the agent service and the graph are set up, the counters start at 0,
\* the try block and the loop are entered
EnterLoop(r) ==
    /\ run[r].pc = "connected"
    /\ run' = [run EXCEPT ![r].pc = "loop", ![r].idx = 1,
                          ![r].completed_count = 0, ![r].failed_count = 0]
    /\ UNCHANGED <<dbVars, wf, stream, execution_log, envVars, svc>>
    /\ UNCHANGED <<messages, artifacts>>

\* the liveness check before a task is started, and the task_selected event
LoopCheck(r) ==
    /\ run[r].pc = "loop"
    /\ LET res == check_connection_status(conn, run[r].connection_id, now,
                                          TimeoutSeconds)
       IN IF res[1]
          THEN /\ run' = [run EXCEPT ![r].pc = "start_read"]
               /\ Emit(r, <<Event("task_selected", CurTask(r), "", <<>>)>>)
          ELSE /\ run' = [run EXCEPT ![r].pc = "pre_pause",
                                     ![r].pause_reason = res[2],
                                     ![r].seen_inactive = TRUE]
               /\ UNCHANGED <<stream, execution_log>>
    /\ UNCHANGED <<dbVars, wf, envVars, svc>>
    /\ UNCHANGED <<messages, artifacts>>

\* update_status(PAUSED), create_from_event(pause_event), the paused event
\* and return; the ValueError of create_from_event goes to the outer
\* except Exception
PrePause(r) ==
    /\ run[r].pc = "pre_pause"
    /\ session_status' = "paused"
    /\ IF create_from_event_accepts("paused")
       THEN /\ Emit(r, <<Event("paused", NoTask, run[r].pause_reason, <<>>)>>)
            /\ run' = [run EXCEPT ![r].pc = "done", ![r].pre_paused = TRUE]
       ELSE EmitError(r, OuterErrorEvent,
                      OuterExcept([run[r] EXCEPT !.pre_paused = TRUE]))
    /\ UNCHANGED <<tasks_status, tasks_result, conn, wf, envVars, svc>>
    /\ UNCHANGED <<messages, artifacts>>

\* the locals set before the workflow of a task is driven
WorkflowStart(rec) ==
    [rec EXCEPT !.pc = "workflow", !.task_result = "", !.task_failed = FALSE,
                !.error_message = "", !.pending_tool_calls = 0,
                !.read_status = ""]

StartedWf == [InitWf EXCEPT !.node = "agent"]

\* execute_single_task hands the graph a task prompt as its input; the
\* reducer of messages adds it to the turns the thread has already got
initial_state(msgs) == Append(msgs, HumanMessage)

\* start_task: its get(), and what follows when it does not write
StartRead(r) ==
    /\ run[r].pc = "start_read"
    /\ LET d == start_task_decision(tasks_status[CurTask(r)])
       IN CASE d = "update" ->
                 /\ run' = [run EXCEPT ![r].pc = "start_write",
                                       ![r].read_status =
                                           tasks_status[CurTask(r)]]
                 /\ UNCHANGED <<wf, stream, execution_log, messages, artifacts>>
            [] d = "return" ->
                 /\ run' = [run EXCEPT ![r] = WorkflowStart(@)]
                 /\ wf' = [wf EXCEPT ![r] = StartedWf]
                 /\ messages' = [messages EXCEPT ![CurTask(r)] =
                                    initial_state(@)]
                 /\ UNCHANGED <<stream, execution_log, artifacts>>
            [] d = "raise" ->
                 /\ EmitError(r, Event("error", CurTask(r), "", <<>>),
                              Advance([run[r] EXCEPT !.failed_count = @ + 1]))
                 /\ UNCHANGED <<wf, messages, artifacts>>
    /\ UNCHANGED <<dbVars, envVars, svc>>

\* start_task: its update()
StartWrite(r) ==
    /\ run[r].pc = "start_write"
    /\ tasks_status' = [tasks_status EXCEPT ![CurTask(r)] = start_task_write]
    /\ run' = [run EXCEPT ![r] = WorkflowStart(@)]
    /\ wf' = [wf EXCEPT ![r] = StartedWf]
    /\ messages' = [messages EXCEPT ![CurTask(r)] = initial_state(@)]
    /\ UNCHANGED <<session_status, tasks_result, conn, stream, execution_log,
                   envVars, artifacts, svc>>
----------------------------------------------------------------------------
(* execute_single_task: the events the workflow can yield next, given the  *)
(* kinds of event the behaviour allows.  An option is the type of the      *)
(* event and the state of the workflow after it; "stop" is the end of the  *)
(* generator.                                                              *)

Opt(type, w) == [type |-> type, wf |-> w]

When(cond, S) == IF cond THEN S ELSE {}

WfOptions(w, kinds) ==
    CASE w.node = "agent" ->
           When("content" \in kinds /\ ~w.content,
                {Opt("content", [w EXCEPT !.content = TRUE])})
           \cup When("tool_call" \in kinds /\ w.calls < MaxToolCalls,
                     {Opt("tool_call", [w EXCEPT !.node = "tools",
                                                 !.open = @ + 1,
                                                 !.calls = @ + 1])})
           \cup When("error" \in kinds, {Opt("error", [w EXCEPT !.node = "end"])})
           \cup {Opt("artifact_analysis_start",
                     [w EXCEPT !.node = "artifact_creator"])}
      [] w.node = "tools" ->
           When(w.calls < MaxToolCalls,
                {Opt("tool_call", [w EXCEPT !.open = @ + 1, !.calls = @ + 1])})
           \cup When("error" \in kinds, {Opt("error", [w EXCEPT !.node = "end"])})
           \cup {Opt("tool_result",
                     [w EXCEPT !.open = @ - 1,
                               !.node = IF w.open = 1 THEN "agent" ELSE "tools"])}
      [] w.node = "artifact_creator" ->
           When("artifact_created" \in kinds,
                {Opt("artifact_created",
                     [w EXCEPT !.node = "reflect", !.result = "text"])})
           \cup When("empty_result" \in kinds,
                     {Opt("artifact_analysis_complete",
                          [w EXCEPT !.node = "reflect", !.result = ""])})
           \cup When("error" \in kinds, {Opt("error", [w EXCEPT !.node = "end"])})
           \cup {Opt("artifact_analysis_complete",
                     [w EXCEPT !.node = "reflect", !.result = "text"])}
      [] w.node = "reflect" ->
           When("reflection" \in kinds /\ ~w.reflected,
                {Opt("reflection", [w EXCEPT !.reflected = TRUE])})
           \cup When("error" \in kinds, {Opt("error", [w EXCEPT !.node = "end"])})
           \cup {Opt(IF w.result # "" THEN "task_completed" ELSE "stop",
                     [w EXCEPT !.node = "end"])}
      [] OTHER -> {Opt("stop", w)}

----------------------------------------------------------------------------
(* event_stream: the body of "async for event in execute_single_task" *)

Max(a, b) == IF a >= b THEN a ELSE b

\* pending_tool_calls after an event of this type
track_tool_calls(pending, type) ==
    IF type = "tool_call" THEN pending + 1
    ELSE IF type = "tool_result" THEN Max(0, pending - 1)
    ELSE pending

\* "if pending_tool_calls == 0": liveness is checked at this event
\* the check made whatever the count
safe_pause_point_always(pending) == TRUE

safe_pause_point(pending) == pending = 0

\* a handler that ends the stream as the outer one does
InnerExcept_abort(rec) == [rec EXCEPT !.pc = "done", !.fault = "exception"]

\* the except Exception of the task: the workflow is given up, an error
\* event of the task is yielded, the task is to be failed
InnerExcept(rec) ==
    [rec EXCEPT !.pc = "update_read", !.task_failed = TRUE,
                !.error_message = "exception", !.event = NoEvent]

TaskErrorEvent(r) == Event("error", CurTask(r), "", <<>>)

\* the event is recorded (task_completed, error), persisted and yielded
Forwarded(rec, ev, result) ==
    [rec EXCEPT !.pc = "workflow",
                !.event = NoEvent,
                !.task_result = IF ev.type = "task_completed" THEN result ELSE @,
                !.task_failed = IF ev.type = "error" THEN TRUE ELSE @,
                !.error_message = IF ev.type = "error" THEN "workflow error"
                                  ELSE @]

\* the rows artifact_creator_node has inserted when this event is yielded
stored_by(type) == IF type = "artifact_created" THEN 1 ELSE 0

\* The next event of the workflow arrives and is counted; at a safe point
\* liveness is checked; the event is forwarded unless the check said
\* inactive.  The end of the workflow leads to the update of the task.
WfEvent(r) ==
    /\ run[r].pc = "workflow"
    /\ \E o \in WfOptions(wf[r], budget.wf) :
         LET ev == Event(o.type, CurTask(r), "", <<>>)
             p == track_tool_calls(run[r].pending_tool_calls, o.type)
             res == IF safe_pause_point(p)
                    THEN check_connection_status(conn, run[r].connection_id,
                                                 now, TimeoutSeconds)
                    ELSE <<TRUE, "">>
             rec == [run[r] EXCEPT !.pending_tool_calls = p, !.event = ev,
                                   !.checked = safe_pause_point(p)]
         IN /\ messages' = [messages EXCEPT ![CurTask(r)] =
                              record_event(@, o.type, wf[r].node)]
            /\ artifacts' = [artifacts EXCEPT ![CurTask(r)] =
                               @ + stored_by(o.type)]
            /\ IF o.type = "stop"
               THEN /\ run' = [run EXCEPT ![r].pc = "update_read"]
                    /\ wf' = [wf EXCEPT ![r] = InitWf]
                    /\ UNCHANGED <<stream, execution_log>>
               ELSE IF ~res[1]
               THEN /\ run' = [run EXCEPT ![r] =
                         [rec EXCEPT !.pc = "inloop_pause",
                                     !.pause_reason = res[2],
                                     !.seen_inactive = TRUE,
                                     !.paused_task = CurTask(r)]]
                    /\ wf' = [wf EXCEPT ![r] = InitWf]
                    /\ UNCHANGED <<stream, execution_log>>
               ELSE IF persist_raises(o.type)
               THEN /\ EmitError(r, TaskErrorEvent(r), InnerExcept(rec))
                    /\ wf' = [wf EXCEPT ![r] = InitWf]
               ELSE /\ run' = [run EXCEPT ![r] = Forwarded(rec, ev, o.wf.result)]
                    /\ wf' = [wf EXCEPT ![r] = o.wf]
                    /\ Emit(r, <<ev>>)
    /\ UNCHANGED <<dbVars, envVars, svc>>

\* update_status(PAUSED), create_from_event(pause_event), the paused event
\* and return; the ValueError of create_from_event goes to the task's
\* except Exception
InLoopPause(r) ==
    /\ run[r].pc = "inloop_pause"
    /\ session_status' = "paused"
    /\ IF create_from_event_accepts("paused")
       THEN /\ Emit(r, <<Event("paused", NoTask, run[r].pause_reason, <<>>)>>)
            /\ run' = [run EXCEPT ![r].pc = "done"]
       ELSE EmitError(r, TaskErrorEvent(r), InnerExcept(run[r]))
    /\ UNCHANGED <<tasks_status, tasks_result, conn, wf, envVars, svc>>
    /\ UNCHANGED <<messages, artifacts>>

\* fail_task or complete_task: its get(), and the error event when it raises
UpdateRead(r) ==
    /\ run[r].pc = "update_read"
    /\ LET st == tasks_status[CurTask(r)]
           d == IF run[r].task_failed THEN fail_task_decision(st)
                ELSE complete_task_decision(st)
       IN IF d = "update"
          THEN /\ run' = [run EXCEPT ![r].pc = "update_write",
                                     ![r].read_status = st]
               /\ UNCHANGED <<stream, execution_log>>
          ELSE EmitError(r, TaskErrorEvent(r), Advance(run[r]))
    /\ UNCHANGED <<dbVars, wf, envVars, svc>>
    /\ UNCHANGED <<messages, artifacts>>

\* fail_task or complete_task: its update(), and the count
UpdateWrite(r) ==
    /\ run[r].pc = "update_write"
    /\ LET t == CurTask(r)
       IN IF run[r].task_failed
          THEN /\ tasks_status' = [tasks_status EXCEPT ![t] = fail_task_write]
               /\ tasks_result' = [tasks_result EXCEPT ![t] =
                     IF run[r].error_message # "" THEN run[r].error_message
                     ELSE "Task execution failed"]
               /\ run' = [run EXCEPT ![r] =
                            Advance([@ EXCEPT !.failed_count = @ + 1])]
          ELSE /\ tasks_status' = [tasks_status EXCEPT ![t] = complete_task_write]
               /\ tasks_result' = [tasks_result EXCEPT ![t] =
                     IF run[r].task_result # "" THEN run[r].task_result
                     ELSE "Task completed"]
               /\ run' = [run EXCEPT ![r] =
                            Advance([@ EXCEPT !.completed_count = @ + 1])]
    /\ UNCHANGED <<session_status, conn, wf, stream, execution_log, envVars, svc>>
    /\ UNCHANGED <<messages, artifacts>>

----------------------------------------------------------------------------
(* event_stream: after the loop *)

FinishStatus(r) ==
    /\ run[r].pc = "finish_status"
    /\ session_status' = "completed"
    /\ run' = [run EXCEPT ![r].pc = "finish_clear"]
    /\ UNCHANGED <<tasks_status, tasks_result, conn, wf, stream,
                   execution_log, envVars, svc>>
    /\ UNCHANGED <<messages, artifacts>>

\* clear_connection, then the done event
FinishClear(r) ==
    /\ run[r].pc = "finish_clear"
    /\ conn' = clear_connection(conn)
    /\ Emit(r, <<Event("done", NoTask, "",
                       <<Len(run[r].tasks_to_execute), run[r].completed_count,
                         run[r].failed_count>>)>>)
    /\ run' = [run EXCEPT ![r].pc = "done_yield"]
    /\ UNCHANGED <<session_status, tasks_status, tasks_result, wf, envVars, svc>>
    /\ UNCHANGED <<messages, artifacts>>

\* the generator is resumed after the done event and ends
StreamEnd(r) ==
    /\ run[r].pc = "done_yield"
    /\ run' = [run EXCEPT ![r].pc = "done"]
    /\ UNCHANGED <<dbVars, wf, stream, execution_log, envVars, svc>>
    /\ UNCHANGED <<messages, artifacts>>

----------------------------------------------------------------------------
(* Faults *)

\* the points where the generator is suspended inside the outer try
TryPoints == {"start_read", "workflow", "done_yield"}

\* The stream is torn down: CancelledError or GeneratorExit is raised where
\* the generator is suspended.  Inside the try the handler sets the session
\* to paused, its create_from_event raises, and the exception leaves the
\* generator; before the try nothing handles it.
Teardown(r) ==
    /\ run[r].pc \in TryPoints \cup {"connected"}
    /\ session_status' = IF run[r].pc \in TryPoints THEN "paused"
                         ELSE session_status
    /\ run' = [run EXCEPT ![r].pc = "aborted", ![r].event = NoEvent,
                          ![r].fault = "teardown"]
    /\ wf' = [wf EXCEPT ![r] = InitWf]
    /\ UNCHANGED <<tasks_status, tasks_result, conn, stream, execution_log,
                   envVars, svc>>
    /\ UNCHANGED <<messages, artifacts>>

\* A store call raises an exception that is no ValueError.  The calls made
\* while the workflow is driven are inside the task's try, and they are
\* made for an event of the workflow: none is made once its last event is
\* forwarded.  The liveness check before a task, start_task, fail_task and
\* complete_task are outside the try.
StoreFault(r) ==
    /\ faults < budget.faults
    /\ run[r].pc \in {"loop", "start_read", "update_read", "workflow"}
    /\ run[r].pc = "workflow" => wf[r].node # "end"
    /\ faults' = faults + 1
    /\ IF run[r].pc = "workflow"
       THEN EmitError(r, TaskErrorEvent(r), InnerExcept(run[r]))
       ELSE EmitError(r, OuterErrorEvent, OuterExcept(run[r]))
    /\ wf' = [wf EXCEPT ![r] = InitWf]
    /\ UNCHANGED <<dbVars, now, next_uuid, claim, pauses, budget, svc>>
    /\ UNCHANGED <<messages, artifacts>>

----------------------------------------------------------------------------
(* The clock and the other endpoints *)

Tick ==
    /\ now + TickStep <= MaxTime
    /\ now' = now + TickStep
    /\ UNCHANGED <<dbVars, runVars, next_uuid, claim, pauses, faults, budget,
                   svc>>
    /\ UNCHANGED <<messages, artifacts>>

\* execution_heartbeat, with any connection id handed out so far
Heartbeat(id) ==
    /\ id \in 1..(next_uuid - 1)
    /\ conn' = update_heartbeat(conn, id, now)[1]
    /\ UNCHANGED <<session_status, tasks_status, tasks_result, runVars,
                   envVars, svc>>
    /\ UNCHANGED <<messages, artifacts>>

\* the positions of a call between its update_status(EXECUTING) and its end
Running == {"register", "connected", "loop", "pre_pause", "start_read",
            "start_write", "workflow", "inloop_pause", "update_read",
            "update_write", "finish_status", "finish_clear", "done_yield"}

\* pause_execution: request_pause when the session is executing; the
\* answer paused=true is noted with the calls of execute_tasks under way
PauseExecution ==
    /\ pauses < budget.pauses
    /\ pauses' = pauses + 1
    /\ LET res == IF session_status = "executing" THEN request_pause(conn)
                  ELSE <<conn, FALSE>>
       IN /\ conn' = res[1]
          /\ run' = [r \in Runs |->
                       IF res[2] /\ run[r].pc \in Running
                       THEN [run[r] EXCEPT !.pause_accepted = TRUE]
                       ELSE run[r]]
    /\ UNCHANGED <<session_status, tasks_status, tasks_result, wf, stream,
                   execution_log, now, next_uuid, claim, faults, budget, svc>>
    /\ UNCHANGED <<messages, artifacts>>

\* claim_execution: the session is read; being executing, a connection is
\* registered; otherwise the answer is claimed=false and nothing is written
ClaimRegister ==
    /\ claim.pc = "idle"
    /\ claim.n < budget.claims
    /\ IF session_status = "executing"
       THEN /\ conn' = register_connection(next_uuid, now)
            /\ next_uuid' = next_uuid + 1
            /\ claim' = [pc |-> "pause", n |-> claim.n + 1, claimed |-> TRUE]
       ELSE /\ claim' = [pc |-> "idle", n |-> claim.n + 1, claimed |-> FALSE]
            /\ UNCHANGED <<conn, next_uuid>>
    /\ UNCHANGED <<session_status, tasks_status, tasks_result, runVars,
                   now, pauses, faults, budget, svc>>
    /\ UNCHANGED <<messages, artifacts>>

\* claim_execution: the session is set to paused
ClaimPause ==
    /\ claim.pc = "pause"
    /\ session_status' = "paused"
    /\ claim' = [claim EXCEPT !.pc = "idle"]
    /\ UNCHANGED <<tasks_status, tasks_result, conn, runVars,
                   now, next_uuid, pauses, faults, budget, svc>>
    /\ UNCHANGED <<messages, artifacts>>

----------------------------------------------------------------------------

Next ==
    \/ \E r \in Runs :
         \/ ExecGetSession(r) \/ ExecGetTasks(r) \/ ExecSetExecuting(r)
         \/ ExecRegister(r) \/ EnterLoop(r) \/ LoopCheck(r) \/ PrePause(r)
         \/ StartRead(r) \/ StartWrite(r) \/ WfEvent(r) \/ InLoopPause(r)
         \/ UpdateRead(r) \/ UpdateWrite(r) \/ FinishStatus(r)
         \/ FinishClear(r) \/ StreamEnd(r) \/ Teardown(r) \/ StoreFault(r)
    \/ Tick
    \/ \E id \in 1..(MaxRuns + MaxClaims) : Heartbeat(id)
    \/ PauseExecution
    \/ ClaimRegister
    \/ ClaimPause

Spec == Init /\ [][Next]_vars

----------------------------------------------------------------------------
(* Two calls of execute_tasks, the second beside or after the first, with  *)
(* claim_execution, heartbeats and the clock; no fault, streams not kept   *)

InitResume ==
    /\ InitState
    /\ budget = [runs |-> MaxRuns, claims |-> MaxClaims, pauses |-> 0,
                 faults |-> 0, wf |-> {"tool_call"}, streams |-> FALSE]

NextResume ==
    \/ \E r \in Runs :
         \/ ExecGetSession(r) \/ ExecGetTasks(r) \/ ExecSetExecuting(r)
         \/ ExecRegister(r) \/ EnterLoop(r) \/ LoopCheck(r) \/ PrePause(r)
         \/ StartRead(r) \/ StartWrite(r) \/ WfEvent(r) \/ InLoopPause(r)
         \/ UpdateRead(r) \/ UpdateWrite(r) \/ FinishStatus(r)
         \/ FinishClear(r) \/ StreamEnd(r)
    \/ Tick
    \/ \E id \in 1..(MaxRuns + MaxClaims) : Heartbeat(id)
    \/ ClaimRegister
    \/ ClaimPause

SpecResume == InitResume /\ [][NextResume]_vars

----------------------------------------------------------------------------
(* Two calls of execute_tasks, the second beside or after the first, with  *)
(* pause_execution, heartbeats and the clock; streams not kept             *)

InitPause ==
    /\ InitState
    /\ budget = [runs |-> MaxRuns, claims |-> 0, pauses |-> MaxPauses,
                 faults |-> 0, wf |-> {"tool_call"}, streams |-> FALSE]

NextPause ==
    \/ \E r \in Runs :
         \/ ExecGetSession(r) \/ ExecGetTasks(r) \/ ExecSetExecuting(r)
         \/ ExecRegister(r) \/ EnterLoop(r) \/ LoopCheck(r) \/ PrePause(r)
         \/ StartRead(r) \/ StartWrite(r) \/ WfEvent(r) \/ InLoopPause(r)
         \/ UpdateRead(r) \/ UpdateWrite(r) \/ FinishStatus(r)
         \/ FinishClear(r) \/ StreamEnd(r)
    \/ Tick
    \/ \E id \in 1..MaxRuns : Heartbeat(id)
    \/ PauseExecution

SpecPause == InitPause /\ [][NextPause]_vars


----------------------------------------------------------------------------
(* Calls of execute_tasks one after the other: a call starts when the one  *)
(* before it has ended, by completion, by a pause or by the loss of its    *)
(* stream; with claim_execution, heartbeats and the clock                  *)

Ended == {"done", "aborted", "rejected"}

\* execute_tasks is called when no earlier call is under way
ExecAfter(r) ==
    /\ \A q \in Runs : q < r => run[q].pc \in Ended
    /\ ExecGetSession(r)

InitSeq ==
    /\ InitState
    /\ budget = [runs |-> MaxRuns, claims |-> MaxClaims, pauses |-> 0,
                 faults |-> 0, wf |-> {"tool_call"}, streams |-> FALSE]

NextSeq ==
    \/ \E r \in Runs :
         \/ ExecAfter(r) \/ ExecGetTasks(r) \/ ExecSetExecuting(r)
         \/ ExecRegister(r) \/ EnterLoop(r) \/ LoopCheck(r) \/ PrePause(r)
         \/ StartRead(r) \/ StartWrite(r) \/ WfEvent(r) \/ InLoopPause(r)
         \/ UpdateRead(r) \/ UpdateWrite(r) \/ FinishStatus(r)
         \/ FinishClear(r) \/ StreamEnd(r) \/ Teardown(r)
    \/ Tick
    \/ \E id \in 1..(MaxRuns + MaxClaims) : Heartbeat(id)
    \/ ClaimRegister
    \/ ClaimPause

SpecSeq == InitSeq /\ [][NextSeq]_vars

----------------------------------------------------------------------------
(* Properties of the orchestrator *)

Last(s) == s[Len(s)]

Count(s, type) == Cardinality({i \in 1..Len(s) : s[i].type = type})

\* C1: while a task's workflow is driven, the liveness check is made and
\* the session is paused only when the count of pending tool invocations
\* is zero: a call about to pause inside a task, and a call that has just
\* made the check, both have pending_tool_calls = 0.
C1_PauseOnlyAtSafePoint ==
    \A r \in Runs :
        /\ run[r].pc = "inloop_pause" => run[r].pending_tool_calls = 0
        /\ run[r].pc = "workflow" /\ run[r].checked
               => run[r].pending_tool_calls = 0
        /\ run[r].pc = "workflow" /\ run[r].pending_tool_calls > 0
               => ~run[r].checked

\* a call pauses inside a task on the tool_result that ends the only
\* pending tool invocation
C1_Witness ==
    \E r \in Runs :
        /\ run[r].pc = "inloop_pause"
        /\ run[r].event.type = "tool_result"
        /\ run[r].pending_tool_calls = 0

\* C2: when liveness turns inactive while a tool invocation is pending, the
\* tool_result that brings the count back to zero is forwarded on the
\* stream and logged before the call pauses: no received event is dropped.
C2_ResultForwardedBeforePause ==
    \A r \in Runs :
        run[r].pc = "inloop_pause" /\ run[r].event.type = "tool_result"
            => /\ Len(stream[r]) > 0
               /\ Last(stream[r]) = run[r].event
               /\ Len(execution_log[r]) > 0
               /\ Last(execution_log[r]) = run[r].event

\* C4: in every state at most one task of the session is in_progress, also
\* when a call of execute_tasks that has been superseded is still running
\* beside a later one.
C4_AtMostOneInProgress ==
    Cardinality({t \in Tasks : tasks_status[t] = "in_progress"}) <= 1

\* the tasks of call r from position i on, and those before it
TasksFrom(r, i) ==
    {run[r].tasks_to_execute[j] : j \in i..Len(run[r].tasks_to_execute)}

TasksBefore(r, i) ==
    {run[r].tasks_to_execute[j] : j \in 1..(i - 1)}

\* C5: a call whose liveness check before a task said inactive has set the
\* session to paused, has emitted exactly one paused event, with the reason
\* reported, and nothing after it, and has not started the task: the task
\* and those after it are pending, those before it are done or failed.
C5_PauseBeforeTask ==
    \A r \in Runs :
        run[r].pre_paused =>
            /\ session_status = "paused"
            /\ Count(stream[r], "paused") = 1
            /\ Last(stream[r]).type = "paused"
            /\ Last(stream[r]).reason = run[r].pause_reason
            /\ \A t \in TasksFrom(r, run[r].idx) : tasks_status[t] = "pending"
            /\ \A t \in TasksBefore(r, run[r].idx) :
                   tasks_status[t] \in {"done", "failed"}

\* C6: a call for a session in planning whose liveness checks all said
\* active, with no fault and no claim, ends with every task done or failed,
\* the session completed, no connection record, one done event, the last of
\* the stream, whose total is the number of tasks, and no paused event.
C6_RunToCompletion ==
    \A r \in Runs :
        (/\ run[r].pc = "done"
         /\ ~run[r].is_resuming
         /\ ~run[r].seen_inactive
         /\ run[r].fault = ""
         /\ claim.n = 0)
        => /\ \A t \in Tasks : tasks_status[t] \in {"done", "failed"}
           /\ session_status = "completed"
           /\ conn = NoConn
           /\ Count(stream[r], "done") = 1
           /\ Last(stream[r]).type = "done"
           /\ Last(stream[r]).summary[1] = NumTasks
           /\ Count(stream[r], "paused") = 0

\* such a call has ended, one of its tasks failed by the workflow's error
C6_Witness ==
    \E r \in Runs :
        /\ run[r].pc = "done"
        /\ ~run[r].is_resuming
        /\ ~run[r].seen_inactive
        /\ run[r].fault = ""
        /\ claim.n = 0
        /\ run[r].failed_count = 1
        /\ run[r].completed_count = NumTasks - 1

\* C7: the task in flight when a call found liveness inactive is marked
\* neither failed nor done: found inside the task it stays in_progress,
\* found before the task it stays pending, and either way it is among the
\* tasks of the next resume.
C7_TaskInFlightKept ==
    \A r \in Runs :
        /\ run[r].paused_task # NoTask =>
              /\ tasks_status[run[r].paused_task] = "in_progress"
              /\ run[r].paused_task \in
                    TasksFrom(r, 1) \cap
                    {t \in Tasks : tasks_status[t] \in {"in_progress", "pending"}}
        /\ run[r].pre_paused =>
              tasks_status[CurTask(r)] \in {"in_progress", "pending"}

\* C8: no call that has set the session to executing ends with the session
\* still executing, and a call ended by a fault that left the handling of
\* the task has set the session to paused and has let the fault through.
C8_FaultPausesSession ==
    \A r \in Runs :
        run[r].pc \in {"done", "aborted"} =>
            /\ session_status # "executing"
            /\ run[r].fault # "" => /\ session_status = "paused"
                                    /\ run[r].pc = "aborted"

\* C9: a stream that ran to its end has paused, done or error as its last
\* event; no stream has more than one done, more than one paused, or both.
C9_TerminalEvent ==
    \A r \in Runs :
        /\ run[r].pc = "done" =>
              /\ Len(stream[r]) > 0
              /\ Last(stream[r]).type \in {"paused", "done", "error"}
        /\ Count(stream[r], "done") <= 1
        /\ Count(stream[r], "paused") <= 1
        /\ Count(stream[r], "done") + Count(stream[r], "paused") <= 1

\* a stream that ended after a liveness check said inactive
C9_Witness ==
    \E r \in Runs :
        /\ run[r].pc = "done"
        /\ run[r].seen_inactive
        /\ Len(stream[r]) > 1

----------------------------------------------------------------------------
(* TaskService alone: any sequence of calls by one caller, each call whole *)

Texts == {"first", "second"}

InitTask ==
    /\ InitState
    /\ budget = [runs |-> 0, claims |-> 0, pauses |-> 0, faults |-> 0,
                 wf |-> {}, streams |-> FALSE]

TaskCall(op, t, text, res) ==
    /\ tasks_status' = res[1]
    /\ tasks_result' = res[2]
    /\ svc' = [op |-> op, arg |-> [task |-> t, text |-> text],
               before |-> [status |-> tasks_status[t],
                           result |-> tasks_result[t]],
               ret |-> res[3]]
    /\ UNCHANGED <<session_status, conn, runVars, envVars>>
    /\ UNCHANGED <<messages, artifacts>>

CallStartTask(t) ==
    TaskCall("start_task", t, "", start_task(tasks_status, tasks_result, t))

CallCompleteTask(t, text) ==
    TaskCall("complete_task", t, text,
             complete_task(tasks_status, tasks_result, t, text))

CallFailTask(t, text) ==
    TaskCall("fail_task", t, text,
             fail_task(tasks_status, tasks_result, t, text))

NextTask ==
    \E t \in Tasks :
        \/ CallStartTask(t)
        \/ \E text \in Texts : CallCompleteTask(t, text)
        \/ \E text \in Texts : CallFailTask(t, text)

SpecTask == InitTask /\ [][NextTask]_vars

TaskOps == {"start_task", "complete_task", "fail_task"}

\* C3: a call of start_task, complete_task or fail_task changes a task's
\* status only from pending to in_progress, from in_progress to done or
\* from in_progress to failed; complete_task or fail_task of a task that is
\* not in_progress, and start_task of a task that is done or failed, raise
\* the error naming the status found and the status expected, and leave
\* status and result of the task as they were.
C3_OnlyLegalTransitions ==
    svc.op \in TaskOps =>
        LET t == svc.arg.task
            old == svc.before.status
            new == tasks_status[t]
            invalid == \/ svc.op \in {"complete_task", "fail_task"}
                          /\ old # "in_progress"
                       \/ svc.op = "start_task" /\ old \in {"done", "failed"}
        IN /\ new # old => <<old, new>> \in {<<"pending", "in_progress">>,
                                             <<"in_progress", "done">>,
                                             <<"in_progress", "failed">>}
           /\ invalid => /\ svc.ret.raised
                         /\ svc.ret.current = old
                         /\ svc.ret.expected =
                               IF svc.op = "start_task"
                               THEN {"pending", "in_progress"}
                               ELSE {"in_progress"}
                         /\ new = old
                         /\ tasks_result[t] = svc.before.result

\* complete_task of a task that is done: raised, result kept
C3_Witness ==
    /\ svc.op = "complete_task"
    /\ svc.before.status = "done"
    /\ svc.arg.text # svc.before.result
    /\ svc.ret.raised

----------------------------------------------------------------------------
(* ExecutionConnectionService alone: any sequence of calls, and the clock *)

InitConn ==
    /\ InitState
    /\ budget = [runs |-> 0, claims |-> 0, pauses |-> 0, faults |-> 0,
                 wf |-> {}, streams |-> FALSE]

ConnCall(op, id, row, ret) ==
    /\ conn' = row
    /\ svc' = [op |-> op, arg |-> id, before |-> conn, ret |-> ret]
    /\ UNCHANGED <<messages, artifacts>>

CallRegister ==
    /\ next_uuid <= MaxRegistrations
    /\ ConnCall("register_connection", next_uuid,
                register_connection(next_uuid, now), next_uuid)
    /\ next_uuid' = next_uuid + 1
    /\ UNCHANGED <<session_status, tasks_status, tasks_result, runVars,
                   now, claim, pauses, faults, budget>>

CallHeartbeat(id) ==
    /\ id \in 1..(next_uuid - 1)
    /\ LET res == update_heartbeat(conn, id, now)
       IN ConnCall("update_heartbeat", id, res[1], res[2])
    /\ UNCHANGED <<session_status, tasks_status, tasks_result, runVars,
                   envVars>>

CallCheck(id) ==
    /\ id \in 1..(next_uuid - 1)
    /\ ConnCall("check_connection_status", id, conn,
                check_connection_status(conn, id, now, TimeoutSeconds))
    /\ UNCHANGED <<session_status, tasks_status, tasks_result, runVars,
                   envVars>>

CallRequestPause ==
    /\ LET res == request_pause(conn)
       IN ConnCall("request_pause", 0, res[1], res[2])
    /\ UNCHANGED <<session_status, tasks_status, tasks_result, runVars,
                   envVars>>

CallClear ==
    /\ ConnCall("clear_connection", 0, clear_connection(conn), TRUE)
    /\ UNCHANGED <<session_status, tasks_status, tasks_result, runVars,
                   envVars>>

ConnTick(d) ==
    /\ now + d <= MaxConnTime
    /\ now' = now + d
    /\ svc' = NoCall
    /\ UNCHANGED <<dbVars, runVars, next_uuid, claim, pauses, faults, budget>>
    /\ UNCHANGED <<messages, artifacts>>

NextConn ==
    \/ CallRegister
    \/ \E id \in 1..MaxRegistrations : CallHeartbeat(id)
    \/ \E id \in 1..MaxRegistrations : CallCheck(id)
    \/ CallRequestPause
    \/ CallClear
    \/ \E d \in {1, TimeoutSeconds} : ConnTick(d)

SpecConn == InitConn /\ [][NextConn]_vars

\* C10: the connection registered last is the owner.  A heartbeat with an
\* id registered before the last one returns false and leaves the record
\* as it was; a heartbeat with the id registered last, the record being
\* there, returns true and changes last_heartbeat only; and no state has
\* two ids that update_heartbeat would accept.
C10_LastRegistrantWins ==
    /\ svc.op = "update_heartbeat" =>
          /\ svc.arg < next_uuid - 1 => ~svc.ret
          /\ ~svc.ret => conn = svc.before
          /\ svc.arg = next_uuid - 1 /\ svc.before # NoConn =>
                /\ svc.ret
                /\ conn.connection_id = svc.before.connection_id
                /\ conn.pause_requested = svc.before.pause_requested
                /\ conn.last_heartbeat = now
    /\ Cardinality({id \in 1..(next_uuid - 1) :
                       update_heartbeat(conn, id, now)[2]}) <= 1

\* two registrations, then a heartbeat with the first id, later than the
\* record's last heartbeat
C10_Witness ==
    /\ svc.op = "update_heartbeat"
    /\ svc.arg = 1
    /\ next_uuid = 3
    /\ svc.before.connection_id = 2
    /\ svc.before.last_heartbeat < now

----------------------------------------------------------------------------
(* The thread of one task alone: the workflow adds turns to it, it is     *)
(* interrupted at any turn and taken up again, and it is repaired.        *)

ToolNames == {"web_search", "calculator", "create_artifact"}

InitRepair ==
    /\ InitState
    /\ budget = [runs |-> 0, claims |-> 0, pauses |-> 0, faults |-> 0,
                 wf |-> {}, streams |-> FALSE]

\* the turns of the thread become these; repairs counts the repairs in a
\* row and added tells whether the first of them appended a turn
ThreadStep(t, op, msgs, repairs, added) ==
    /\ messages' = [messages EXCEPT ![t] = msgs]
    /\ svc' = [op |-> op, arg |-> [task |-> t, repairs |-> repairs],
               before |-> messages[t], ret |-> added]
    /\ UNCHANGED <<dbVars, runVars, envVars, artifacts>>

\* the invocations open in the thread: those of the last agent turn with
\* invocations that nothing answers, unless the task was taken up since
OpenCalls(msgs) ==
    IF CallTurns(msgs) = {} THEN <<>>
    ELSE IF \E k \in (LastCallTurn(msgs) + 1)..Len(msgs) : msgs[k].type = "human"
    THEN <<>>
    ELSE Orphans(msgs, LastCallTurn(msgs))

\* execute_single_task takes the task up: the prompt is added to the thread
TakeUp(t) ==
    /\ Len(messages[t]) < MaxMessages
    /\ ThreadStep(t, "take_up", initial_state(messages[t]), 0, FALSE)

\* the agent node answers with a turn of some invocations, or of none
AgentTurn(t) ==
    /\ messages[t] # <<>>
    /\ Len(messages[t]) < MaxMessages
    /\ messages[t][Len(messages[t])].type \in {"human", "tool"}
    /\ OpenCalls(messages[t]) = <<>>
    /\ \E n \in 0..MaxCallsPerTurn : \E names \in [1..n -> ToolNames] :
         LET first == NextCallId(messages[t])
             calls == [j \in 1..n |-> ToolCall(first + j - 1, names[j])]
         IN ThreadStep(t, "agent", Append(messages[t], AIMessage(calls)),
                       0, FALSE)

\* the tool node answers one of the open invocations
ToolTurn(t) ==
    /\ Len(messages[t]) < MaxMessages
    /\ \E j \in 1..Len(OpenCalls(messages[t])) :
         LET c == OpenCalls(messages[t])[j]
         IN ThreadStep(t, "tool",
                       Append(messages[t], ToolMessage(c.id, c.name, "output")),
                       0, FALSE)

\* the thread is repaired
Repair(t) ==
    /\ IF svc.op = "repair" THEN svc.arg.repairs < MaxRepairs ELSE TRUE
    /\ LET msgs == repair(messages[t])
       IN IF svc.op = "repair"
          THEN ThreadStep(t, "repair", msgs, svc.arg.repairs + 1, svc.ret)
          ELSE ThreadStep(t, "repair", msgs, 1, msgs # messages[t])

NextRepair ==
    \E t \in {1} : TakeUp(t) \/ AgentTurn(t) \/ ToolTurn(t) \/ Repair(t)

SpecRepair == InitRepair /\ [][NextRepair]_vars

----------------------------------------------------------------------------
(* create_execution_graph: the nodes and the edges of the workflow *)

END == "__end__"

Nodes == {"agent", "tools", "reflect", "artifact_creator"}

entry_point == "agent"

\* a routing that sends every agent turn to the tools
should_continue_any_ai(msgs) ==
    IF msgs # <<>> /\ msgs[Len(msgs)].type = "ai"
    THEN "tools" ELSE "artifact_creator"

\* the conditional edge of the agent node
should_continue(msgs) ==
    IF /\ msgs # <<>>
       /\ msgs[Len(msgs)].type = "ai"
       /\ msgs[Len(msgs)].tool_calls # <<>>
    THEN "tools" ELSE "artifact_creator"

\* the node that runs after this one, the state being msgs
Successor(node, msgs) ==
    CASE node = "agent" -> should_continue(msgs)
      [] node = "tools" -> "agent"
      [] node = "artifact_creator" -> "reflect"
      [] node = "reflect" -> END

----------------------------------------------------------------------------
(* One task from start_task to complete_task or fail_task, with            *)
(* execute_single_task followed node by node and graph event by graph      *)
(* event; no check of liveness, no log                                     *)

\* the results the model can give: none, blank, some text
Results == {"", " ", "text"}

Blank(text) == text \in {"", " "}

\* Python's truth of a string
Truthy(text) == text # ""

\* an event execute_single_task yields
WfOut(type, taskId, result) == [type |-> type, taskId |-> taskId, result |-> result]

\* the locals of execute_single_task and the place of the graph
StartedGraph ==
    [node |-> entry_point, phase |-> "enter", todo |-> <<>>, open |-> 0,
     running |-> <<>>,
     content |-> FALSE, artifact_analysis_started |-> FALSE,
     task_result |-> "", created_artifact |-> FALSE,
     task_result_from_artifact |-> ""]

InitGraph ==
    /\ InitState
    /\ budget = [runs |-> 0, claims |-> 0, pauses |-> 0, faults |-> 0,
                 wf |-> {}, streams |-> TRUE]

\* the workflow of call r is at this node, the generator not ended
AtNode(r, node) == wf[r].node = node

\* the generator has ended: the graph got to its end, or raised
Exhausted(r) == wf[r].node \in {END, "raised"}

\* a graph event in the course of which n artifacts of the task are stored
GraphStore(r, w, msgs, evs, n) ==
    /\ wf' = [wf EXCEPT ![r] = w]
    /\ messages' = [messages EXCEPT ![r] = msgs]
    /\ stream' = [stream EXCEPT ![r] = @ \o evs]
    /\ artifacts' = [artifacts EXCEPT ![r] = @ + n]
    /\ UNCHANGED <<dbVars, run, execution_log, envVars, svc>>

GraphStep(r, w, msgs, evs) == GraphStore(r, w, msgs, evs, 0)

\* start_task, then the call of execute_single_task: the prompt goes to the
\* thread of the task and the graph is entered
RunTask(r) ==
    /\ AtNode(r, "none")
    /\ tasks_status[r] = "pending"
    /\ LET res == start_task(tasks_status, tasks_result, r)
       IN /\ tasks_status' = res[1]
          /\ tasks_result' = res[2]
    /\ wf' = [wf EXCEPT ![r] = StartedGraph]
    /\ messages' = [messages EXCEPT ![r] = initial_state(@)]
    /\ UNCHANGED <<session_status, conn, run, stream, execution_log,
                   envVars, artifacts, svc>>

\* on_chat_model_stream of the agent node
AgentStream(r) ==
    /\ AtNode(r, "agent")
    /\ ~wf[r].content
    /\ GraphStep(r, [wf[r] EXCEPT !.content = TRUE], messages[r],
                 <<WfOut("content", r, "")>>)

\* the agent node returns its turn and the conditional edge is taken
AgentEnd(r) ==
    /\ AtNode(r, "agent")
    /\ \E n \in 0..MaxCallsPerTurn : \E names \in [1..n -> ToolNames] :
         /\ n > 0 => Len(messages[r]) + n + 2 <= MaxMessages
         /\ LET first == NextCallId(messages[r])
                calls == [j \in 1..n |-> ToolCall(first + j - 1, names[j])]
                msgs == Append(messages[r], AIMessage(calls))
            IN GraphStep(r, [wf[r] EXCEPT !.node = Successor("agent", msgs),
                                          !.todo = calls,
                                          !.content = FALSE],
                         msgs, <<>>)

\* on_tool_start
ToolStart(r) ==
    /\ AtNode(r, "tools")
    /\ wf[r].todo # <<>>
    /\ GraphStep(r, [wf[r] EXCEPT !.todo = Tail(@), !.open = @ + 1,
                                  !.running = Append(@, Head(wf[r].todo))],
                 messages[r], <<WfOut("tool_call", r, "")>>)

\* the rows a tool inserts into artifacts for the task: create_artifact
\* one, unless it returns an error or was given no task_id
tool_stores(name) == IF name = "create_artifact" THEN {0, 1} ELSE {0}

\* on_tool_end: the tool started first has run
ToolEnd(r) ==
    /\ AtNode(r, "tools")
    /\ wf[r].open > 0
    /\ \E n \in tool_stores(Head(wf[r].running).name) :
         GraphStore(r, [wf[r] EXCEPT !.open = @ - 1, !.running = Tail(@)],
                    messages[r], <<WfOut("tool_result", r, "")>>, n)

\* the tool node returns the results of the invocations of the last turn
ToolsEnd(r) ==
    /\ AtNode(r, "tools")
    /\ wf[r].todo = <<>>
    /\ wf[r].open = 0
    /\ LET calls == messages[r][Len(messages[r])].tool_calls
           results == [j \in 1..Len(calls) |->
                          ToolMessage(calls[j].id, calls[j].name, "output")]
           msgs == messages[r] \o results
       IN GraphStep(r, [wf[r] EXCEPT !.node = Successor("tools", msgs)],
                    msgs, <<>>)

\* the event yielded at every on_chain_start
analysis_start_always(started, r) == <<WfOut("artifact_analysis_start", r, "")>>

\* "if not artifact_analysis_started": the event of an on_chain_start of
\* the artifact_creator node
analysis_start(started, r) ==
    IF ~started THEN <<WfOut("artifact_analysis_start", r, "")>> ELSE <<>>

\* the rows artifact_creator_node inserts: one when the decision is to
\* create and the insert succeeds, whatever the task has already got
node_stores(existing, created) == IF created THEN 1 ELSE 0

\* on_chain_start with langgraph_node = artifact_creator: of the node, of
\* the chain of reflection_llm that gives the result, and, the result not
\* blank, of the chain of artifact_llm that decides on the artifact
ArtifactChainStart(r) ==
    /\ AtNode(r, "artifact_creator")
    /\ wf[r].phase \in {"enter", "result", "decision"}
    /\ \E text \in Results : \E created \in BOOLEAN :
         LET w == [wf[r] EXCEPT !.artifact_analysis_started = TRUE]
         IN GraphStore(r,
               CASE wf[r].phase = "enter" -> [w EXCEPT !.phase = "result"]
                 [] wf[r].phase = "result" ->
                      [w EXCEPT !.task_result = text,
                                !.phase = IF Blank(text) THEN "exit"
                                          ELSE "decision"]
                 [] wf[r].phase = "decision" ->
                      [w EXCEPT !.created_artifact = created,
                                !.phase = "exit"],
               messages[r],
               analysis_start(wf[r].artifact_analysis_started, r),
               IF wf[r].phase = "decision"
               THEN node_stores(artifacts[r], created) ELSE 0)

\* on_chain_end of the artifact_creator node
ArtifactEnd(r) ==
    /\ AtNode(r, "artifact_creator")
    /\ wf[r].phase = "exit"
    /\ GraphStep(r,
          [wf[r] EXCEPT !.task_result_from_artifact = wf[r].task_result,
                        !.node = Successor("artifact_creator", messages[r])],
          messages[r],
          IF wf[r].created_artifact
          THEN <<WfOut("artifact_created", r, "")>>
          ELSE <<WfOut("artifact_analysis_complete", r, "")>>)

\* task_completed is yielded whatever the result
completed_event_always(result, r) == <<WfOut("task_completed", r, result)>>

\* "if task_result_from_artifact": the task_completed event
completed_event(result, r) ==
    IF Truthy(result) THEN <<WfOut("task_completed", r, result)>> ELSE <<>>

\* on_chain_end of the reflect node: reflection, then task_completed
ReflectEnd(r) ==
    /\ AtNode(r, "reflect")
    /\ \E final_reflection \in {"", "text"} :
         GraphStep(r, [wf[r] EXCEPT !.node = Successor("reflect", messages[r])],
                   messages[r],
                   (IF Truthy(final_reflection)
                    THEN <<WfOut("reflection", r, "")>> ELSE <<>>)
                   \o completed_event(wf[r].task_result_from_artifact, r))

\* a node raises: except Exception yields the error event
GraphRaises(r) ==
    /\ wf[r].node \in Nodes
    /\ GraphStep(r, [wf[r] EXCEPT !.node = "raised"], messages[r],
                 <<WfOut("error", r, "")>>)

\* what event_stream has kept of the events when the generator ends
task_failed(evs) == \E i \in 1..Len(evs) : evs[i].type = "error"

TaskResultOf(evs) ==
    IF \E i \in 1..Len(evs) : evs[i].type = "task_completed"
    THEN evs[CHOOSE i \in 1..Len(evs) : evs[i].type = "task_completed"].result
    ELSE ""

\* "Update task in database": fail_task, or complete_task with
\* task_result or "Task completed"
UpdateTask(r) ==
    /\ Exhausted(r)
    /\ tasks_status[r] = "in_progress"
    /\ LET text == TaskResultOf(stream[r])
           res == IF task_failed(stream[r])
                  THEN fail_task(tasks_status, tasks_result, r, "workflow error")
                  ELSE complete_task(tasks_status, tasks_result, r,
                                     IF Truthy(text) THEN text
                                     ELSE "Task completed")
       IN /\ tasks_status' = res[1]
          /\ tasks_result' = res[2]
    /\ UNCHANGED <<session_status, conn, runVars, envVars, messages, artifacts,
                   svc>>

NextGraph ==
    \E r \in {1} :
        \/ RunTask(r) \/ AgentStream(r) \/ AgentEnd(r) \/ ToolStart(r)
        \/ ToolEnd(r) \/ ToolsEnd(r) \/ ArtifactChainStart(r)
        \/ ArtifactEnd(r) \/ ReflectEnd(r) \/ GraphRaises(r) \/ UpdateTask(r)

SpecGraph == InitGraph /\ [][NextGraph]_vars

----------------------------------------------------------------------------
(* The planning chat beside the task service: the status of the session    *)
(* is set as the orchestrator sets it, the tasks are taken through their   *)
(* transitions, and a chat message that yields a plan stores its tasks     *)

\* the status of an order that has no row in tasks
NoRow == "absent"

InitChat ==
    /\ InitState
    /\ budget = [runs |-> 0, claims |-> 0, pauses |-> 0, faults |-> 0,
                 wf |-> {}, streams |-> FALSE]

\* session_service.update_status
SetStatus(s) ==
    /\ session_status # s
    /\ session_status' = s
    /\ svc' = [op |-> "update_status", arg |-> s, before |-> session_status,
               ret |-> TRUE]
    /\ UNCHANGED <<tasks_status, tasks_result, conn, runVars, envVars>>
    /\ UNCHANGED <<messages, artifacts>>

\* a transition of a task that has a row
TaskStep(t) ==
    /\ tasks_status[t] # NoRow
    /\ \/ CallStartTask(t)
       \/ \E text \in Texts : CallCompleteTask(t, text)
       \/ \E text \in Texts : CallFailTask(t, text)

\* chat, the done event with tasks_generated not empty: delete_by_session.
\* The status of the session is not read.
ChatDelete ==
    /\ \E t \in Tasks : tasks_status[t] # NoRow
    /\ tasks_status' = [t \in Tasks |-> NoRow]
    /\ tasks_result' = [t \in Tasks |-> ""]
    /\ svc' = [op |-> "delete_by_session", arg |-> session_status,
               before |-> tasks_status,
               ret |-> Cardinality({t \in Tasks : tasks_status[t] # NoRow})]
    /\ UNCHANGED <<session_status, conn, runVars, envVars>>
    /\ UNCHANGED <<messages, artifacts>>

\* chat: create_many of the tasks of the plan, each pending
ChatCreate ==
    /\ svc.op = "delete_by_session"
    /\ tasks_status' = [t \in Tasks |-> "pending"]
    /\ svc' = [op |-> "create_many", arg |-> session_status,
               before |-> tasks_status, ret |-> NumTasks]
    /\ UNCHANGED <<session_status, tasks_result, conn, runVars, envVars>>
    /\ UNCHANGED <<messages, artifacts>>

NextChat ==
    \/ \E s \in SessionStatus : SetStatus(s)
    \/ \E t \in Tasks : TaskStep(t)
    \/ ChatDelete
    \/ ChatCreate

SpecChat == InitChat /\ [][NextChat]_vars

\* C11: check_connection_status says (inactive, client_disconnected) when
\* the session has no record; else (inactive, user_requested) when the
\* pause flag is set, whatever the heartbeat and the id; else (inactive,
\* client_disconnected) when the id is not the record's or the heartbeat is
\* more than the timeout old; else (active, no reason): a heartbeat exactly
\* the timeout old is active.
C11_CheckStatusCases ==
    svc.op = "check_connection_status" =>
        LET row == svc.before
            age == now - row.last_heartbeat
        IN /\ row = NoConn => svc.ret = <<FALSE, "client_disconnected">>
           /\ row # NoConn /\ row.pause_requested
                 => svc.ret = <<FALSE, "user_requested">>
           /\ (/\ row # NoConn
               /\ ~row.pause_requested
               /\ (row.connection_id # svc.arg \/ age > TimeoutSeconds))
                 => svc.ret = <<FALSE, "client_disconnected">>
           /\ (/\ row # NoConn
               /\ ~row.pause_requested
               /\ row.connection_id = svc.arg
               /\ age <= TimeoutSeconds)
                 => svc.ret = <<TRUE, "">>

\* the owner checks when its heartbeat is exactly the timeout old
C11_Witness ==
    /\ svc.op = "check_connection_status"
    /\ svc.before # NoConn
    /\ ~svc.before.pause_requested
    /\ svc.before.connection_id = svc.arg
    /\ now - svc.before.last_heartbeat = TimeoutSeconds

\* C12: right after register_connection the session's record holds the
\* fresh id, last_heartbeat = now and pause_requested = false, whatever the
\* record was before, so that a pause requested before the registration is
\* not reported as user_requested to the new owner.
C12_RegisterReplaces ==
    svc.op = "register_connection" =>
        /\ conn = [connection_id |-> svc.arg, last_heartbeat |-> now,
                   pause_requested |-> FALSE]
        /\ svc.arg = next_uuid - 1
        /\ svc.before # NoConn => svc.arg # svc.before.connection_id
        /\ check_connection_status(conn, svc.arg, now, TimeoutSeconds)
              = <<TRUE, "">>

\* a registration over a record whose pause flag was set, after the clock
\* has moved
C12_Witness ==
    /\ svc.op = "register_connection"
    /\ svc.before # NoConn
    /\ svc.before.pause_requested
    /\ now > 0

\* C13: a call of execute_tasks under way when pause_execution answered
\* paused=true passes no later safe checkpoint as active: it starts no
\* further task and forwards no further event at a safe point; this also
\* when the pause was accepted between update_status(EXECUTING) and
\* register_connection.
C13_AcceptedPauseObserved ==
    [][\A r \in Runs :
          run[r].pause_accepted =>
              /\ ~(run[r].pc = "loop" /\ run'[r].pc = "start_read")
              /\ ~(/\ run[r].pc = "workflow"
                   /\ run'[r].pc = "workflow"
                   /\ wf'[r] # wf[r]
                   /\ run'[r].checked)]_vars

----------------------------------------------------------------------------
(* claim_execution *)

\* call r registered a connection and the row now carries another id
Superseded(r) ==
    /\ run[r].connection_id # 0
    /\ conn # NoConn
    /\ conn.connection_id # run[r].connection_id

\* C14: claim_execution on an executing session registers a new connection
\* and then sets the session to paused; a call of execute_tasks whose
\* connection was superseded passes no later liveness check as active: before
\* a task the check leads to the pause code and from there to the end of the
\* stream, no task is started, and during a task no event is forwarded after
\* a check.  On a session that is not executing claim_execution answers
\* claimed=false and changes neither the session status nor the connection
\* row.
C14_ClaimSupersedes ==
    [][/\ (claim.pc = "idle" /\ claim'.n # claim.n) =>
             IF session_status = "executing"
             THEN /\ claim'.claimed
                  /\ claim'.pc = "pause"
                  /\ conn' # NoConn
                  /\ conn'.connection_id = next_uuid
                  /\ \A r \in Runs : conn'.connection_id # run[r].connection_id
             ELSE /\ ~claim'.claimed
                  /\ claim'.pc = "idle"
                  /\ session_status' = session_status
                  /\ conn' = conn
       /\ (claim.pc = "pause" /\ claim'.pc = "idle") =>
             session_status' = "paused"
       /\ \A r \in Runs :
            Superseded(r) =>
               /\ ~(run[r].pc = "loop" /\ run'[r].pc = "start_read")
               /\ (run[r].pc = "loop" /\ run'[r].pc # "loop") =>
                     run'[r].pc \in {"pre_pause", "done", "aborted"}
               /\ (run[r].pc = "pre_pause" /\ run'[r].pc # "pre_pause") =>
                     run'[r].pc \in {"done", "aborted"}
               /\ ~(/\ run[r].pc = "workflow"
                    /\ run'[r].pc = "workflow"
                    /\ wf'[r] # wf[r]
                    /\ run'[r].checked)]_vars

\* a claim superseded the connection of a call of execute_tasks, the session
\* was set to paused, and the call's next check before a task said inactive
C14_Witness ==
    \E r \in Runs :
        /\ claim.claimed
        /\ claim.pc = "idle"
        /\ Superseded(r)
        /\ run[r].pc = "pre_pause"
        /\ run[r].pause_reason = "client_disconnected"
        /\ run[r].idx > 1

\* a claim was answered claimed=false
C14_Rejected == claim.n > 0 /\ ~claim.claimed

----------------------------------------------------------------------------
(* The session status *)

\* C15: once the session status is completed no step changes it, whatever
\* the interleaving of calls of execute_tasks, claim_execution,
\* pause_execution and heartbeats.
C15_CompletedIsFinal ==
    [][session_status = "completed" => session_status' = "completed"]_vars

\* C16: the session status becomes executing only by the update_status of a
\* call of execute_tasks that read the session as planning or paused and
\* found tasks to execute; a call that reads the session as executing or
\* completed, or finds no task to execute, is rejected, and neither that
\* step nor any later one of the call changes the session, the tasks, the
\* connection row or the log.
C16_ExecutingOnlyFromPlanningOrPaused ==
    [][/\ (session_status' = "executing" /\ session_status # "executing") =>
             \E r \in Runs :
                 /\ run[r].pc = "set_executing"
                 /\ run'[r].pc = "register"
                 /\ run[r].session_read \in {"planning", "paused"}
                 /\ run[r].tasks_to_execute # <<>>
       /\ \A r \in Runs :
            /\ (/\ run[r].pc = "idle"
                /\ run'[r].pc # "idle"
                /\ session_status \in {"executing", "completed"}) =>
                  /\ run'[r].pc = "rejected"
                  /\ UNCHANGED <<dbVars, stream, execution_log>>
            /\ (/\ run[r].pc = "get_tasks"
                /\ run'[r].pc # "get_tasks"
                /\ \A t \in Tasks :
                     tasks_status[t] \notin
                        (IF run[r].is_resuming THEN {"pending", "in_progress"}
                         ELSE {"pending"})) =>
                  /\ run'[r].pc = "rejected"
                  /\ UNCHANGED <<dbVars, stream, execution_log>>
            /\ run[r].pc = "rejected" =>
                  /\ run'[r] = run[r]
                  /\ stream'[r] = stream[r]
                  /\ execution_log'[r] = execution_log[r]]_vars

\* a call was rejected for the status it read and the session still has
\* that status
C16_Witness ==
    \E r \in Runs :
        /\ run[r].pc = "rejected"
        /\ run[r].session_read \in {"executing", "completed"}
        /\ session_status = run[r].session_read

\* a call was rejected for having no task to execute
C16_RejectedEmpty ==
    \E r \in Runs :
        /\ run[r].pc = "rejected"
        /\ run[r].session_read = "paused"

----------------------------------------------------------------------------
(* The tasks of a call *)

\* ascending
Ascending(s) == \A i, j \in 1..Len(s) : i < j => s[i] < s[j]

----------------------------------------------------------------------------
(* start_task *)

C19_StartInProgressRaises ==
    (svc.op = "start_task" /\ svc.before.status = "in_progress") =>
        /\ svc.ret.raised
        /\ "pending" \in svc.ret.expected

----------------------------------------------------------------------------
(* A fault of a task *)

\* C20: when the workflow of a task yields an error event that is
\* forwarded, or an exception is raised while the workflow is driven, an
\* error event naming the task is yielded, the task is marked to be failed
\* with the error message and neither the session status nor any task
\* changes in that step; the update that follows moves the task from
\* in_progress to failed with the error message as its result, counts it
\* as failed and goes on to the next task, or to the end of the batch after
\* the last one, leaving the session status as it is.
C20_TaskFaultIsLocal ==
    [][\A r \in Runs :
         LET yielded == /\ Len(stream'[r]) = Len(stream[r]) + 1
                        /\ Last(stream'[r]).type = "error"
             t == CurTask(r)
         IN /\ (run[r].pc = "workflow" /\ faults' = faults + 1) => yielded
            /\ (run[r].pc = "workflow" /\ yielded) =>
                  /\ Last(stream'[r]).taskId = t
                  /\ run'[r].task_failed
                  /\ run'[r].error_message # ""
                  /\ run'[r].pc \in {"workflow", "update_read"}
                  /\ run'[r].idx = run[r].idx
                  /\ UNCHANGED <<session_status, tasks_status, tasks_result>>
            /\ (/\ run[r].pc = "update_read"
                /\ run[r].task_failed
                /\ run'[r].pc # "update_read"
                /\ tasks_status[t] = "in_progress"
                /\ faults' = faults
                /\ run'[r].fault # "teardown") =>
                  run'[r].pc = "update_write"
            /\ (/\ run[r].pc = "update_write"
                /\ run[r].task_failed
                /\ run'[r].pc # "update_write") =>
                  /\ tasks_status'[t] = "failed"
                  /\ tasks_result'[t] = run[r].error_message
                  /\ \A u \in Tasks \ {t} :
                        /\ tasks_status'[u] = tasks_status[u]
                        /\ tasks_result'[u] = tasks_result[u]
                  /\ run'[r].failed_count = run[r].failed_count + 1
                  /\ run'[r].completed_count = run[r].completed_count
                  /\ run'[r].idx = run[r].idx + 1
                  /\ run'[r].pc = IF run[r].idx < Len(run[r].tasks_to_execute)
                                  THEN "loop" ELSE "finish_status"
                  /\ session_status' = session_status]_vars

\* the workflow of the first task yielded an error event, the task is
\* failed with that message, and the call is driving the second task with
\* the session executing
C20_Witness ==
    \E r \in Runs :
        /\ run[r].pc = "workflow"
        /\ run[r].idx = 2
        /\ run[r].failed_count = 1
        /\ tasks_status[run[r].tasks_to_execute[1]] = "failed"
        /\ tasks_result[run[r].tasks_to_execute[1]] = "workflow error"
        /\ tasks_status[run[r].tasks_to_execute[2]] = "in_progress"
        /\ session_status = "executing"
        /\ \E i \in 1..Len(stream[r]) :
              /\ stream[r][i].type = "error"
              /\ stream[r][i].taskId = run[r].tasks_to_execute[1]

----------------------------------------------------------------------------
(* An invalid transition inside the loop *)

\* C21: when start_task, complete_task or fail_task raises the error for an
\* invalid transition inside the loop, the call yields an error event of
\* the task, adds one to failed_count, which the done event reports, and
\* goes on to the next task or to the code after the loop.
C21_InvalidTransitionCounted ==
    [][\A r \in Runs :
         LET t == CurTask(r)
             st == tasks_status[t]
             raises ==
                 \/ /\ run[r].pc = "start_read"
                    /\ start_task_decision(st) = "raise"
                 \/ /\ run[r].pc = "update_read"
                    /\ (IF run[r].task_failed THEN fail_task_decision(st)
                        ELSE complete_task_decision(st)) = "raise"
         IN (/\ run[r].pc \in {"start_read", "update_read"}
             /\ raises
             /\ run'[r].pc # run[r].pc
             /\ faults' = faults
             /\ run'[r].fault # "teardown") =>
               /\ run'[r].failed_count = run[r].failed_count + 1
               /\ run'[r].completed_count = run[r].completed_count
               /\ run'[r].idx = run[r].idx + 1
               /\ run'[r].pc = IF run[r].idx < Len(run[r].tasks_to_execute)
                               THEN "loop" ELSE "finish_status"
               /\ budget.streams =>
                     /\ Len(stream'[r]) = Len(stream[r]) + 1
                     /\ Last(stream'[r]).type = "error"
                     /\ Last(stream'[r]).taskId = t]_vars

\* C22: of the calls of complete_task and fail_task made for a task that is
\* in_progress, at most one writes: a call writes status and result of the
\* task only while the task is in_progress, so a task that one call has
\* ended is not written by another.
C22_OneWriterPerTask ==
    [][\A r \in Runs :
         (run[r].pc = "update_write" /\ run'[r].pc # "update_write") =>
            tasks_status[CurTask(r)] = "in_progress"]_vars

----------------------------------------------------------------------------
(* Resuming a task *)

\* C23: when the workflow of a task that was in_progress is started again,
\* the conversation the workflow starts from has no agent turn with a tool
\* invocation that lacks a matching tool-result turn.
C23_ResumedConversationValid ==
    [][\A r \in Runs :
         (/\ run[r].pc = "start_read"
          /\ run'[r].pc = "workflow"
          /\ tasks_status[CurTask(r)] = "in_progress") =>
            Unmatched(messages'[CurTask(r)]) = {}]_vars

\* the turns a repair appended, told from the thread before and after it
RepairAdded == SubSeq(messages[svc.arg.task], Len(svc.before) + 1,
                      Len(messages[svc.arg.task]))

\* C24: a repair leaves the turns of the thread as they were and appends,
\* for the most recent agent turn that has invocations, exactly one
\* tool-result turn for each invocation that no later tool-result turn
\* answers, with the identifier and the tool name of that invocation, and
\* no turn for an invocation that is answered; it appends nothing else.
C24_RepairAnswersOrphans ==
    svc.op = "repair" =>
        LET before == svc.before
            after == messages[svc.arg.task]
            added == RepairAdded
            turns == {i \in 1..Len(before) :
                        before[i].type = "ai" /\ Len(before[i].tool_calls) > 0}
        IN /\ Len(after) >= Len(before)
           /\ SubSeq(after, 1, Len(before)) = before
           /\ \A k \in 1..Len(added) : added[k].type = "tool"
           /\ IF turns = {} THEN added = <<>>
              ELSE LET i == CHOOSE i \in turns : \A k \in turns : k <= i
                       calls == before[i].tool_calls
                       answered(c) == \E k \in (i + 1)..Len(before) :
                                         /\ before[k].type = "tool"
                                         /\ before[k].tool_call_id = c.id
                       for(c) == {k \in 1..Len(added) :
                                    /\ added[k].tool_call_id = c.id
                                    /\ added[k].name = c.name}
                   IN /\ \A j \in 1..Len(calls) :
                           Cardinality(for(calls[j])) =
                               IF answered(calls[j]) THEN 0 ELSE 1
                      /\ Len(added) = Cardinality({j \in 1..Len(calls) :
                                                     ~answered(calls[j])})

\* a turn of two invocations, one of them answered, is repaired: one turn
\* is appended
C24_Witness ==
    /\ svc.op = "repair"
    /\ CallTurns(svc.before) # {}
    /\ Len(svc.before[LastCallTurn(svc.before)].tool_calls) = 2
    /\ Len(Orphans(svc.before, LastCallTurn(svc.before))) = 1
    /\ Len(RepairAdded) = 1

\* C25: a repair of a thread that has just been repaired appends nothing,
\* and so does a repair of a thread in which every invocation is answered.
C25_RepairIdempotent ==
    svc.op = "repair" =>
        /\ svc.arg.repairs >= 2 => messages[svc.arg.task] = svc.before
        /\ Unmatched(svc.before) = {} => messages[svc.arg.task] = svc.before

\* the second repair in a row, after a first one that appended a turn
C25_Witness ==
    /\ svc.op = "repair"
    /\ svc.arg.repairs = 2
    /\ svc.ret

\* the types of the events call r has yielded, in a workflow followed node
\* by node
Yielded(r, types) == SelectSeq(stream[r], LAMBDA e : e.type \in types)

TerminalTypes == {"task_completed", "error"}

\* C26: a run of execute_single_task that has ended has yielded exactly one
\* terminal event, task_completed with the result or error, and that event
\* is the last one it yielded.
C26_OneTerminalEventLast ==
    \A r \in Runs :
        (wf[r].node \in {END, "raised"}) =>
            /\ Len(Yielded(r, TerminalTypes)) = 1
            /\ stream[r][Len(stream[r])].type \in TerminalTypes
            /\ stream[r][Len(stream[r])].type = "task_completed" =>
                   stream[r][Len(stream[r])].result =
                       wf[r].task_result_from_artifact

ArtifactTypes == {"artifact_analysis_start", "artifact_created",
                  "artifact_analysis_complete"}

\* C27: when the result the workflow generated is empty or only blanks, the
\* run yields no artifact_analysis_start, artifact_created or
\* artifact_analysis_complete event, it still yields task_completed with
\* that result, and the task is marked done with that result.
C27_BlankResultSkipsArtifact ==
    \A r \in Runs :
        (/\ wf[r].node \in {"reflect", END}
         /\ Blank(wf[r].task_result_from_artifact)) =>
            /\ Yielded(r, ArtifactTypes) = <<>>
            /\ wf[r].node = END =>
                 /\ Len(Yielded(r, {"task_completed"})) = 1
                 /\ Yielded(r, {"task_completed"})[1].result =
                        wf[r].task_result_from_artifact
                 /\ tasks_status[r] \in {"in_progress", "done"}
                 /\ tasks_status[r] = "done" =>
                        tasks_result[r] = wf[r].task_result_from_artifact

\* the last turn is an agent turn with at least one invocation
LastHasToolCalls(msgs) ==
    /\ Len(msgs) > 0
    /\ msgs[Len(msgs)].type = "ai"
    /\ Len(msgs[Len(msgs)].tool_calls) >= 1

\* C28: when the agent node has returned, the tools node runs next exactly
\* when the last turn of the conversation is an agent turn with at least
\* one tool invocation, and the artifact-decision node runs next otherwise;
\* when the tools node has returned, the agent node runs next.
C28_Routing ==
    [][\A r \in Runs :
         /\ (wf[r].node = "agent" /\ wf'[r].node \notin {"agent", "raised"}) =>
                wf'[r].node = IF LastHasToolCalls(messages'[r]) THEN "tools"
                              ELSE "artifact_creator"
         /\ (wf[r].node = "tools" /\ wf'[r].node \notin {"tools", "raised"}) =>
                wf'[r].node = "agent"]_vars

\* the agent has answered twice, once with invocations, which the tools
\* node has run, and once without: the artifact-decision node is next
C28_Witness ==
    /\ wf[1].node = "artifact_creator"
    /\ CallTurns(messages[1]) # {}
    /\ Len(Yielded(1, {"tool_result"})) >= 1

\* C29: the workflow runs in no node but agent, tools and artifact_creator
\* (there is no reflect node), and when the artifact_creator node has
\* returned the graph is at its end.
C29_ArtifactCreatorIsTerminal ==
    [][\A r \in Runs :
         /\ wf'[r].node \in {"none", "agent", "tools", "artifact_creator",
                            END, "raised"}
         /\ (/\ wf[r].node = "artifact_creator"
             /\ wf'[r].node \notin {"artifact_creator", "raised"}) =>
                wf'[r].node = END]_vars

\* the events of the artifact-decision step call r has yielded
Decisions(r) == Yielded(r, {"artifact_created", "artifact_analysis_complete"})

\* C30: a run yields artifact_analysis_start at most once, and a run in
\* which the artifact_creator node has returned has yielded exactly one
\* event of artifact_created and artifact_analysis_complete; a run that
\* has not got there has yielded none.
C30_ArtifactEventsOnce ==
    \A r \in Runs :
        /\ Len(Yielded(r, {"artifact_analysis_start"})) <= 1
        /\ Len(Decisions(r)) =
              IF \/ wf[r].node \in {"reflect", END}
                 \/ wf[r].node = "raised" /\ Decisions(r) # <<>>
              THEN 1 ELSE 0

\* the result was not blank, both chains of the node have started, the node
\* has returned and the run has ended
C30_Witness ==
    /\ wf[1].node = END
    /\ ~Blank(wf[1].task_result_from_artifact)
    /\ Len(Yielded(1, {"artifact_analysis_start"})) = 1
    /\ Len(Decisions(1)) = 1

\* C31: the artifact-decision step stores no artifact for a task that has
\* one already, whether a tool of the agent stored it or an earlier run,
\* and stores at most one for a task that has none: the one the task had
\* is kept and the step never brings a task to two artifacts.
C31_ArtifactDecisionGuard ==
    [][\A r \in Runs :
         (wf[r].node = "artifact_creator" /\ wf'[r].node = "artifact_creator") =>
             /\ artifacts'[r] >= artifacts[r]
             /\ artifacts'[r] <= 1 \/ artifacts'[r] = artifacts[r]]_vars

\* the events of task t among the first n events of a stream
CountOf(evs, n, t, type) ==
    Cardinality({i \in 1..n : evs[i].taskId = t /\ evs[i].type = type})

C33_RequestPauseFrame ==
    svc.op = "request_pause" =>
        /\ svc.ret = (svc.before # NoConn)
        /\ svc.before # NoConn =>
              /\ conn.pause_requested
              /\ conn.connection_id = svc.before.connection_id
              /\ conn.last_heartbeat = svc.before.last_heartbeat
        /\ svc.before = NoConn => conn = NoConn

\* a pause is requested of a record that has had a heartbeat since it was
\* registered and whose flag was not set
C33_Witness ==
    /\ svc.op = "request_pause"
    /\ svc.before # NoConn
    /\ svc.before.last_heartbeat > 0
    /\ ~svc.before.pause_requested
    /\ conn.pause_requested

\* C34: no step takes away the row of a task or puts another in its place:
\* a task that has a row keeps it, whatever the status of its session.
C34_TasksNeverDeleted ==
    [][\A t \in Tasks : tasks_status[t] \in TaskStatus =>
                            tasks_status'[t] \in TaskStatus]_vars

\* the events of a stream that are to be in the log
Loggable(evs) == SelectSeq(evs, LAMBDA e : e.type \notin {"content", "connection"})

\* C35: the log a call of execute_tasks has written is the sequence of the
\* events it has yielded, content and connection events left out, in the
\* order of the stream; no content event is in the log; and the paused
\* event of a call that has paused the session before a task is among them.
C35_LogMatchesStream ==
    \A r \in Runs :
        /\ execution_log[r] = Loggable(stream[r])
        /\ Count(execution_log[r], "content") = 0
        /\ run[r].pre_paused =>
              /\ Count(execution_log[r], "paused") = 1
              /\ Count(stream[r], "paused") = 1

\* C36: no pending task of the session has a lower order than an in_progress
\* task of the session, so that get_resumable_tasks, which sorts by order
\* only, returns the in_progress tasks before the pending ones.
C36_InProgressBeforePending ==
    \A t1, t2 \in Tasks :
        (t1 < t2 /\ tasks_status[t2] = "in_progress") => tasks_status[t1] # "pending"

\* a call resumed has the second task in progress
C36_Witness ==
    /\ \E t \in Tasks : t > 1 /\ tasks_status[t] = "in_progress"
    /\ \E r \in Runs : run[r].is_resuming /\ run[r].pc = "workflow"

\* C37: a call of execute_tasks that clears the connection after its last
\* task leaves the record alone when the record holds another connection id
\* than the one the call registered.
C37_ClearsOwnRecordOnly ==
    [][\A r \in Runs :
          (/\ run[r].pc = "finish_clear"
           /\ run'[r].pc = "done_yield"
           /\ conn # NoConn
           /\ conn.connection_id # run[r].connection_id) => conn' = conn]_vars

\* C38: a call of execute_tasks whose connection id is no longer the one of
\* the record, a later registration having replaced it, changes the status
\* of no task: it starts none and completes or fails none.
C38_SupersededChangesNoTask ==
    [][\A r \in Runs :
          (/\ run[r].pc \in {"start_write", "update_write"}
           /\ run'[r].pc # run[r].pc
           /\ conn # NoConn
           /\ conn.connection_id # run[r].connection_id) =>
              tasks_status' = tasks_status]_vars

\* C39: while the session is paused one of its tasks is pending or in
\* progress, so that the execute_tasks that follows finds a task to run.
C39_PausedHasWork ==
    session_status = "paused" =>
        \E t \in Tasks : tasks_status[t] \in {"pending", "in_progress"}

\* C40: in every done event the completed and failed counts add up to the
\* total, the number of tasks selected for the run: on the stream of a call,
\* and in the counts of a call that has just yielded its done event.
C40_DoneCountsAddUp ==
    \A r \in Runs :
        /\ \A i \in 1..Len(stream[r]) :
              stream[r][i].type = "done" =>
                  stream[r][i].summary[2] + stream[r][i].summary[3]
                      = stream[r][i].summary[1]
        /\ run[r].pc = "done_yield" =>
              run[r].completed_count + run[r].failed_count
                  = Len(run[r].tasks_to_execute)
====
